---- MODULE Spec2Model ----
(***************************************************************************)
(* wg-manager: the reconciliation scheduler of main.go (main, handleEvent, *)
(* synchronize, waitForInterrupt) driving the WireGuard peer manager and   *)
(* the portforward rule manager.                                           *)
(*                                                                         *)
(* The goroutines are "main" (start-up, the initial synchronize(), the     *)
(* wait for a signal, the deferred tear-down) and "worker" (the select     *)
(* loop of main.go:131-145).  The ticker goroutine and the subscriber      *)
(* goroutine are the two trigger sources.  Every call into a manager or    *)
(* the API is one step, so a unit of work (one synchronize() or one        *)
(* handleEvent()) spans several steps and can be observed in flight.       *)
(*                                                                         *)
(* Spec is the whole agent.  SpecPf drives the portforward manager alone,  *)
(* as TestPortforward does.  SpecFail is the full sync with mutations of   *)
(* single peers failing in the managers.  SpecLive is the agent while no   *)
(* signal arrives, with the fairness the Go scheduler and the API timeout  *)
(* give.                                                                   *)
(***************************************************************************)
EXTENDS Integers, Sequences, FiniteSets, TLC

\* ---------------------------------------------------------------- bounds
\* At most MaxDropped ticks in a row are counted as dropped.
MaxDropped == 2
\* The API returns lists of at most MaxList peers.
MaxList == 1

\* ------------------------------------------------------------ peer data
Procs == {"main", "worker"}

\* A CIDR string "addr/plen" is the pair of its two parts; "" is an absent
\* address.
Cidr(a, l) == [addr |-> a, plen |-> l]

NoCidr == Cidr("", 0)

\* api.WireguardPeer{IPv4, IPv6, Ports, Pubkey}
Peer(k, v4, v6, ps) == [Pubkey |-> k, IPv4 |-> v4, IPv6 |-> v6, Ports |-> ps]

\* The zero value of api.WireguardPeer
ZeroPeer == Peer("", NoCidr, NoCidr, <<>>)

\* apiFixture[0] of the portforward test
PeerA == Peer("kA", Cidr("10.99.0.1", 32), Cidr("fc00:bbbb:bbbb:bb01::1", 128), <<4321, 1234>>)

\* apiFixture[0] with Ports = rulesUpdatedPortsFixture
PeerAUpdated == Peer("kA", Cidr("10.99.0.1", 32), Cidr("fc00:bbbb:bbbb:bb01::1", 128), <<1234, 4322, 1337>>)

\* An IPv4-only peer with no forwarded ports
PeerB0 == Peer("kB", Cidr("10.99.0.2", 32), NoCidr, <<>>)

\* The same peer with a port listed twice
PeerB == Peer("kB", Cidr("10.99.0.2", 32), NoCidr, <<53, 53>>)

PeerUniverse == {PeerA, PeerAUpdated, PeerB0, PeerB}

\* api.WireguardPeerList values the API can return: at most MaxList records,
\* public keys unique.
DesiredLists ==
    { l \in UNION { [1..n -> PeerUniverse] : n \in 0..MaxList } :
        \A i, j \in DOMAIN l : l[i].Pubkey = l[j].Pubkey => i = j }

Keys(l) == { l[i].Pubkey : i \in DOMAIN l }

\* subscriber.WireguardEvent{Action, Peer}
Event(a, p) == [Action |-> a, Peer |-> p]

\* What a receive from the closed eventChannel yields
ZeroEvent == Event("", ZeroPeer)

\* The events the subscriber can deliver: every known action on every peer,
\* and malformed ones.
Events ==
    { Event(a, p) : a \in {"ADD", "REMOVE", "UPDATE_PORTS"}, p \in PeerUniverse }
      \cup { Event("BOGUS", PeerA), Event("", PeerB), ZeroEvent }

NoEvent == Event("none", ZeroPeer)

\* ------------------------------------------- WireGuard peer manager
\* The device table of one interface: a set of [Pubkey, AllowedIPs].
Interfaces == {"wg0"}

AllowedIPs(p) == { c \in {p.IPv4, p.IPv6} : c # NoCidr }

DevKeys(d) == { e.Pubkey : e \in d }

WgAddPeerDev(d, p) ==
    { e \in d : e.Pubkey # p.Pubkey } \cup {[Pubkey |-> p.Pubkey, AllowedIPs |-> AllowedIPs(p)]}

WgRemovePeerDev(d, p) == { e \in d : e.Pubkey # p.Pubkey }

\* wg.AddPeer(peer): on every configured interface
WgAddPeer(dv, p) == [i \in Interfaces |-> WgAddPeerDev(dv[i], p)]

\* wg.RemovePeer(peer): on every configured interface
WgRemovePeer(dv, p) == [i \in Interfaces |-> WgRemovePeerDev(dv[i], p)]

\* wg.UpdatePeers(peers): add the desired peers the device lacks, remove the
\* device peers the list lacks, leave the others untouched.
WgUpdatePeersDev(d, l) ==
    { e \in d : e.Pubkey \in Keys(l) }
      \cup { [Pubkey |-> l[i].Pubkey, AllowedIPs |-> AllowedIPs(l[i])] :
               i \in { j \in DOMAIN l : l[j].Pubkey \notin DevKeys(d) } }

WgUpdatePeers(dv, l) == [i \in Interfaces |-> WgUpdatePeersDev(dv[i], l)]

\* The keys UpdatePeers may return: desired keys that were on the device
\* before the pass (only those can have a handshake).
ConnectableKeys(dv, l) == { k \in Keys(l) : \E i \in Interfaces : k \in DevKeys(dv[i]) }

\* ------------------------------------------- portforward rule manager
Families == {"ipv4", "ipv6"}

Chains == {"TCP", "UDP"}

Proto(chain) == IF chain = "TCP" THEN "tcp" ELSE "udp"

PeerCidr(p, fam) == IF fam = "ipv4" THEN p.IPv4 ELSE p.IPv6

\* The address without its prefix length
BareAddress(c) == c.addr

RECURSIVE SortedSeq(_)
SortedSeq(S) ==
    IF S = {} THEN <<>>
    ELSE LET m == CHOOSE x \in S : \A y \in S : x <= y
         IN  <<m>> \o SortedSeq(S \ {m})

\* The multiport list: ports sorted ascending, duplicates removed
Dports(ps) == SortedSeq({ ps[i] : i \in DOMAIN ps })

\* -A <PREFIX>_<chain> -p <proto> -m set --match-set <ipset> dst
\*    -m multiport --dports <dports> -j DNAT --to-destination <dest>
Rule(chain, fam, p) ==
    [chain |-> chain, proto |-> Proto(chain), ipset |-> fam,
     dports |-> Dports(p.Ports), dest |-> BareAddress(PeerCidr(p, fam))]

HasRules(p, fam) == p.Ports # <<>> /\ PeerCidr(p, fam) # NoCidr

\* The rules of one peer in one chain of one family: one or none
PeerRules(chain, fam, p) == IF HasRules(p, fam) THEN <<Rule(chain, fam, p)>> ELSE <<>>

InSeq(x, s) == \E i \in DOMAIN s : s[i] = x

\* Mutant of AppendUnique: the rule is appended without looking whether the
\* chain holds it already (-A without -C).
AppendAlways(s, x) == Append(s, x)

AppendUnique(s, x) == IF InSeq(x, s) THEN s ELSE Append(s, x)

RECURSIVE AppendAllUnique(_, _)
AppendAllUnique(s, xs) ==
    IF xs = <<>> THEN s ELSE AppendAllUnique(AppendUnique(s, Head(xs)), Tail(xs))

\* The firewall: rules[fam][chain] is the rule list of chain <PREFIX>_<chain>
\* in iptables (ipv4) or ip6tables (ipv6); sets[fam] is the ipset of fam.
Firewall(r, s) == [rules |-> r, sets |-> s]

EmptyFirewall == Firewall([f \in Families |-> [c \in Chains |-> <<>>]], [f \in Families |-> {}])

\* Mutant of PfAdd: the peer's rules are appended whether or not the chains
\* hold them already.
PfAddAppendsAgain(t, p) ==
    Firewall([f \in Families |-> [c \in Chains |-> t.rules[f][c] \o PeerRules(c, f, p)]],
             [f \in Families |->
                  IF HasRules(p, f) THEN t.sets[f] \cup {BareAddress(PeerCidr(p, f))}
                  ELSE t.sets[f]])

\* pf.AddPortforwarding(peer)
PfAdd(t, p) ==
    Firewall([f \in Families |-> [c \in Chains |->
                  AppendAllUnique(t.rules[f][c], PeerRules(c, f, p))]],
             [f \in Families |->
                  IF HasRules(p, f) THEN t.sets[f] \cup {BareAddress(PeerCidr(p, f))}
                  ELSE t.sets[f]])

\* Mutant of PfRemove: the chains are flushed instead of losing the rules of
\* the one peer.
PfRemoveFlushes(t, p) ==
    Firewall([f \in Families |-> [c \in Chains |-> <<>>]],
             [f \in Families |->
                  IF PeerCidr(p, f) = NoCidr THEN t.sets[f]
                  ELSE t.sets[f] \ {BareAddress(PeerCidr(p, f))}])

\* pf.RemovePortforwarding(peer): the rules that redirect to the peer's address
PfRemove(t, p) ==
    Firewall([f \in Families |-> [c \in Chains |->
                  LET Keep(r) == PeerCidr(p, f) = NoCidr \/ r.dest # BareAddress(PeerCidr(p, f))
                  IN  SelectSeq(t.rules[f][c], Keep)]],
             [f \in Families |->
                  IF PeerCidr(p, f) = NoCidr THEN t.sets[f]
                  ELSE t.sets[f] \ {BareAddress(PeerCidr(p, f))}])

\* Mutant of PfUpdateSingle: the peer's rules are installed without clearing
\* the ones it had.
PfUpdateSingleKeepsOld(t, p) == PfAdd(t, p)

\* pf.UpdateSinglePeerPortforwarding(peer): clear, then install
PfUpdateSingle(t, p) == PfAdd(PfRemove(t, p), p)

RECURSIVE DesiredRules(_, _, _)
DesiredRules(chain, fam, l) ==
    IF l = <<>> THEN <<>>
    ELSE PeerRules(chain, fam, Head(l)) \o DesiredRules(chain, fam, Tail(l))

\* Mutant of PfUpdate: the implied rules are appended but the rules the list
\* no longer implies are left in the chains.
PfUpdateKeepsStale(t, l) ==
    Firewall([f \in Families |-> [c \in Chains |->
                  AppendAllUnique(t.rules[f][c], DesiredRules(c, f, l))]],
             [f \in Families |->
                  { BareAddress(PeerCidr(l[i], f)) : i \in { j \in DOMAIN l : HasRules(l[j], f) } }])

\* pf.UpdatePortforwarding(peers): drop the rules the list does not imply,
\* append the implied rules that are missing.
PfUpdate(t, l) ==
    Firewall([f \in Families |-> [c \in Chains |->
                  LET want == DesiredRules(c, f, l)
                      Keep(r) == InSeq(r, want)
                  IN  AppendAllUnique(SelectSeq(t.rules[f][c], Keep), want)]],
             [f \in Families |->
                  { BareAddress(PeerCidr(l[i], f)) : i \in { j \in DOMAIN l : HasRules(l[j], f) } }])

\* ------------------------------------------------------------- state
VARIABLES
    pc,             \* pc[g]: the statement goroutine g is at
    dev,            \* dev[i]: the kernel peer table of interface i
    fw,             \* the NAT chains and ipsets the portforward manager owns
    peers,          \* peers[g]: synchronize()'s local `peers`
    connectedKeys,  \* connectedKeys[g]: synchronize()'s local `connectedKeys`
    msg,            \* the worker's local `msg` (the event it is handling)
    tickC,          \* ticker.C: 1 while a tick is handed to the receiver
    tickerRunning,  \* the ticker exists and has not been stopped
    evPending,      \* the subscriber is blocked sending an event on eventChannel
    evClosed,       \* close(eventChannel) has run
    cancelled,      \* shutdown() has cancelled shutdownCtx
    signalled,      \* waitForInterrupt has returned with a signal
    wgClosed,       \* wg.Close() has run
    unit,           \* history: the unit of work begun last, with its calls
    inFlightAtSignal, \* history: the unit in flight when the signal came is unfinished
    droppedTicks,   \* history: ticks dropped since the worker last took a trigger
    declared,       \* history: what the control plane last declared, per public key
    ctorErr         \* history: the constructor that failed at start-up, or "none"

vars == <<pc, dev, fw, peers, connectedKeys, msg, tickC, tickerRunning,
          evPending, evClosed, cancelled, signalled, wgClosed, unit,
          inFlightAtSignal, droppedTicks, declared, ctorErr>>

\* The statements of synchronize() and handleEvent() at which a unit of work
\* is under way.
SyncLabels == {"GetWireguardPeers", "UpdatePeers", "UpdatePortforwarding", "PostWireguardConnections"}

EventLabels == {"handleEvent", "AddPortforwarding", "RemovePortforwarding"}

InFlight(g) == pc[g] \in SyncLabels \cup EventLabels

\* The process has not exited (os.Exit in log.Fatal, or main returned).
Alive == pc["main"] \notin {"exited", "fatal"}

Tables == [dev |-> dev, fw |-> fw]

\* One entry of the call history of a unit of work: the peers passed or
\* fetched, the keys passed or returned, and whether the call succeeded.
Call(op, ps, ks, ok) == [op |-> op, peers |-> ps, keys |-> ks, ok |-> ok]

NoUnit == [proc |-> "none", kind |-> "none", trigger |-> NoEvent, pre |-> Tables, calls |-> <<>>]

BeginUnit(g, kind, e) == [proc |-> g, kind |-> kind, trigger |-> e, pre |-> Tables, calls |-> <<>>]

Logged(c) == [unit EXCEPT !.calls = Append(@, c)]

\* Mutant of ReturnTo: synchronize()'s return takes the worker out of its
\* loop instead of back to the select.
ReturnToEndsWorker(g) == IF g = "main" THEN "Subscribe" ELSE "returned"

\* Where control goes when synchronize() or handleEvent() returns
ReturnTo(g) == IF g = "main" THEN "Subscribe" ELSE "select"

\* The public keys of the peers the control plane can name
AllKeys == { p.Pubkey : p \in PeerUniverse }

\* Before the first successful fetch nothing is known of the desired state.
NothingDeclared == [fetched |-> FALSE, peer |-> [k \in AllKeys |-> ZeroPeer]]

\* The desired state after the list l has been fetched
DeclaredByList(l) ==
    [fetched |-> TRUE,
     peer |-> [k \in AllKeys |-> IF k \in Keys(l) THEN l[CHOOSE i \in DOMAIN l : l[i].Pubkey = k]
                                 ELSE ZeroPeer]]

\* The desired state after an ADD (installs p), a REMOVE (p = ZeroPeer) or,
\* for a declared peer, an UPDATE_PORTS event for key k
DeclaredByEvent(k, p) == [declared EXCEPT !.peer[k] = p]

DeclaredKeys == { k \in AllKeys : declared.peer[k] # ZeroPeer }

\* Tables a previous run of the agent can have left behind
BootTables ==
    { [dev |-> [i \in Interfaces |-> {}], fw |-> EmptyFirewall],
      [dev |-> WgAddPeer([i \in Interfaces |-> {}], PeerA), fw |-> PfAdd(EmptyFirewall, PeerA)] }

Init ==
    /\ pc = [g \in Procs |-> IF g = "main" THEN "NewWireguard" ELSE "unborn"]
    /\ \E b \in BootTables : dev = b.dev /\ fw = b.fw
    /\ peers = [g \in Procs |-> <<>>]
    /\ connectedKeys = [g \in Procs |-> {}]
    /\ msg = NoEvent
    /\ tickC = 0
    /\ tickerRunning = FALSE
    /\ evPending = FALSE
    /\ evClosed = FALSE
    /\ cancelled = FALSE
    /\ signalled = FALSE
    /\ wgClosed = FALSE
    /\ unit = NoUnit
    /\ inFlightAtSignal = FALSE
    /\ droppedTicks = 0
    /\ declared = NothingDeclared
    /\ ctorErr = "none"

\* -------------------------------------------------------- synchronize()
\* a.GetWireguardPeers() returns the list l
SyncGetPeersOk(g, l) ==
    /\ Alive /\ pc[g] = "GetWireguardPeers"
    /\ peers' = [peers EXCEPT ![g] = l]
    /\ unit' = Logged(Call("GetWireguardPeers", l, {}, TRUE))
    /\ pc' = [pc EXCEPT ![g] = "UpdatePeers"]
    /\ declared' = DeclaredByList(l)
    /\ UNCHANGED <<dev, fw, connectedKeys, msg, tickC, tickerRunning, evPending,
                   evClosed, cancelled, signalled, wgClosed, inFlightAtSignal, droppedTicks, ctorErr>>

\* Mutant of SyncGetPeersFail: the `return` after the failed fetch is missing
\* and the cycle goes on with the nil list.
SyncGetPeersFailFallsThrough(g) ==
    /\ Alive /\ pc[g] = "GetWireguardPeers"
    /\ unit' = Logged(Call("GetWireguardPeers", <<>>, {}, FALSE))
    /\ peers' = [peers EXCEPT ![g] = <<>>]
    /\ pc' = [pc EXCEPT ![g] = "UpdatePeers"]
    /\ UNCHANGED <<dev, fw, connectedKeys, msg, tickC, tickerRunning, evPending,
                   evClosed, cancelled, signalled, wgClosed, inFlightAtSignal, droppedTicks, declared, ctorErr>>

\* a.GetWireguardPeers() fails (error or timeout): count, log, return
SyncGetPeersFail(g) ==
    /\ Alive /\ pc[g] = "GetWireguardPeers"
    /\ unit' = Logged(Call("GetWireguardPeers", <<>>, {}, FALSE))
    /\ pc' = [pc EXCEPT ![g] = ReturnTo(g)]
    /\ inFlightAtSignal' = (inFlightAtSignal /\ g # "worker")
    /\ UNCHANGED <<dev, fw, peers, connectedKeys, msg, tickC, tickerRunning, evPending,
                   evClosed, cancelled, signalled, wgClosed, droppedTicks, declared, ctorErr>>

\* Mutant of SyncUpdatePeers: the keys UpdatePeers returns are not kept, the
\* report sends what connectedKeys held before.
SyncUpdatePeersResultDropped(g, ck) ==
    /\ Alive /\ pc[g] = "UpdatePeers"
    /\ ck \subseteq ConnectableKeys(dev, peers[g])
    /\ dev' = WgUpdatePeers(dev, peers[g])
    /\ unit' = Logged(Call("UpdatePeers", peers[g], ck, TRUE))
    /\ pc' = [pc EXCEPT ![g] = "UpdatePortforwarding"]
    /\ UNCHANGED <<fw, peers, connectedKeys, msg, tickC, tickerRunning, evPending,
                   evClosed, cancelled, signalled, wgClosed, inFlightAtSignal, droppedTicks, declared, ctorErr>>

\* connectedKeys := wg.UpdatePeers(peers)
SyncUpdatePeers(g, ck) ==
    /\ Alive /\ pc[g] = "UpdatePeers"
    /\ ck \subseteq ConnectableKeys(dev, peers[g])
    /\ dev' = WgUpdatePeers(dev, peers[g])
    /\ connectedKeys' = [connectedKeys EXCEPT ![g] = ck]
    /\ unit' = Logged(Call("UpdatePeers", peers[g], ck, TRUE))
    /\ pc' = [pc EXCEPT ![g] = "UpdatePortforwarding"]
    /\ UNCHANGED <<fw, peers, msg, tickC, tickerRunning, evPending,
                   evClosed, cancelled, signalled, wgClosed, inFlightAtSignal, droppedTicks, declared, ctorErr>>

\* pf.UpdatePortforwarding(peers)
SyncUpdatePortforwarding(g) ==
    /\ Alive /\ pc[g] = "UpdatePortforwarding"
    /\ fw' = PfUpdate(fw, peers[g])
    /\ unit' = Logged(Call("UpdatePortforwarding", peers[g], {}, TRUE))
    /\ pc' = [pc EXCEPT ![g] = "PostWireguardConnections"]
    /\ UNCHANGED <<dev, peers, connectedKeys, msg, tickC, tickerRunning, evPending,
                   evClosed, cancelled, signalled, wgClosed, inFlightAtSignal, droppedTicks, declared, ctorErr>>

\* a.PostWireguardConnections(connectedKeys) succeeds
SyncPostOk(g) ==
    /\ Alive /\ pc[g] = "PostWireguardConnections"
    /\ unit' = Logged(Call("PostWireguardConnections", <<>>, connectedKeys[g], TRUE))
    /\ pc' = [pc EXCEPT ![g] = ReturnTo(g)]
    /\ peers' = [peers EXCEPT ![g] = <<>>]
    /\ connectedKeys' = [connectedKeys EXCEPT ![g] = {}]
    /\ inFlightAtSignal' = (inFlightAtSignal /\ g # "worker")
    /\ UNCHANGED <<dev, fw, msg, tickC, tickerRunning, evPending,
                   evClosed, cancelled, signalled, wgClosed, droppedTicks, declared, ctorErr>>

\* Mutant of SyncPostFail: a failed report rolls the cycle's changes back.
SyncPostFailRollsBack(g) ==
    /\ Alive /\ pc[g] = "PostWireguardConnections"
    /\ unit' = Logged(Call("PostWireguardConnections", <<>>, connectedKeys[g], FALSE))
    /\ dev' = unit.pre.dev
    /\ fw' = unit.pre.fw
    /\ pc' = [pc EXCEPT ![g] = ReturnTo(g)]
    /\ peers' = [peers EXCEPT ![g] = <<>>]
    /\ connectedKeys' = [connectedKeys EXCEPT ![g] = {}]
    /\ inFlightAtSignal' = (inFlightAtSignal /\ g # "worker")
    /\ UNCHANGED <<msg, tickC, tickerRunning, evPending,
                   evClosed, cancelled, signalled, wgClosed, droppedTicks, declared, ctorErr>>

\* a.PostWireguardConnections(connectedKeys) fails: count, log, return
SyncPostFail(g) ==
    /\ Alive /\ pc[g] = "PostWireguardConnections"
    /\ unit' = Logged(Call("PostWireguardConnections", <<>>, connectedKeys[g], FALSE))
    /\ pc' = [pc EXCEPT ![g] = ReturnTo(g)]
    /\ peers' = [peers EXCEPT ![g] = <<>>]
    /\ connectedKeys' = [connectedKeys EXCEPT ![g] = {}]
    /\ inFlightAtSignal' = (inFlightAtSignal /\ g # "worker")
    /\ UNCHANGED <<dev, fw, msg, tickC, tickerRunning, evPending,
                   evClosed, cancelled, signalled, wgClosed, droppedTicks, declared, ctorErr>>

\* ---------------------------------------------------------------- main()
\* wireguard.New(interfacesList, metrics); log.Fatalf on error
MainNewWireguard(ok) ==
    /\ pc["main"] = "NewWireguard"
    /\ pc' = [pc EXCEPT !["main"] = IF ok THEN "NewPortforward" ELSE "fatal"]
    /\ ctorErr' = IF ok THEN ctorErr ELSE "wireguard"
    /\ UNCHANGED <<dev, fw, peers, connectedKeys, msg, tickC, tickerRunning, evPending,
                   evClosed, cancelled, signalled, wgClosed, unit, inFlightAtSignal, droppedTicks, declared>>

\* Mutant of MainNewPortforward: the error of portforward.New is logged with
\* log.Printf instead of log.Fatalf and main carries on.
MainNewPortforwardLogsError(ok) ==
    /\ pc["main"] = "NewPortforward"
    /\ pc' = [pc EXCEPT !["main"] = "synchronize"]
    /\ ctorErr' = IF ok THEN ctorErr ELSE "portforward"
    /\ UNCHANGED <<dev, fw, peers, connectedKeys, msg, tickC, tickerRunning, evPending,
                   evClosed, cancelled, signalled, wgClosed, unit, inFlightAtSignal, droppedTicks, declared>>

\* portforward.New(chainPrefix, ipsetIPv4, ipsetIPv6); log.Fatalf on error
MainNewPortforward(ok) ==
    /\ pc["main"] = "NewPortforward"
    /\ pc' = [pc EXCEPT !["main"] = IF ok THEN "synchronize" ELSE "fatal"]
    /\ ctorErr' = IF ok THEN ctorErr ELSE "portforward"
    /\ UNCHANGED <<dev, fw, peers, connectedKeys, msg, tickC, tickerRunning, evPending,
                   evClosed, cancelled, signalled, wgClosed, unit, inFlightAtSignal, droppedTicks, declared>>

\* Mutant of MainSynchronize: the ticker and the worker loop are started
\* before the initial synchronization instead of after it.
MainSynchronizeWorkerRunning ==
    /\ pc["main"] = "synchronize"
    /\ pc' = [pc EXCEPT !["main"] = "GetWireguardPeers", !["worker"] = "select"]
    /\ tickerRunning' = TRUE
    /\ unit' = BeginUnit("main", "sync", NoEvent)
    /\ UNCHANGED <<dev, fw, peers, connectedKeys, msg, tickC, evPending,
                   evClosed, cancelled, signalled, wgClosed, inFlightAtSignal, droppedTicks, declared, ctorErr>>

\* "Run an initial synchronization": main calls synchronize() itself
MainSynchronize ==
    /\ pc["main"] = "synchronize"
    /\ pc' = [pc EXCEPT !["main"] = "GetWireguardPeers"]
    /\ unit' = BeginUnit("main", "sync", NoEvent)
    /\ UNCHANGED <<dev, fw, peers, connectedKeys, msg, tickC, tickerRunning, evPending,
                   evClosed, cancelled, signalled, wgClosed, inFlightAtSignal, droppedTicks, declared, ctorErr>>

\* s.Subscribe(shutdownCtx, eventChannel); log.Fatal on error
MainSubscribe(ok) ==
    /\ pc["main"] = "Subscribe"
    /\ pc' = [pc EXCEPT !["main"] = IF ok THEN "go" ELSE "fatal"]
    /\ UNCHANGED <<dev, fw, peers, connectedKeys, msg, tickC, tickerRunning, evPending,
                   evClosed, cancelled, signalled, wgClosed, unit, inFlightAtSignal, droppedTicks, declared, ctorErr>>

\* jitter.NewTicker(...) and `go func() { for { select ... } }()`
MainGoWorker ==
    /\ pc["main"] = "go"
    /\ pc' = [pc EXCEPT !["main"] = "waitForInterrupt", !["worker"] = "select"]
    /\ tickerRunning' = TRUE
    /\ UNCHANGED <<dev, fw, peers, connectedKeys, msg, tickC, evPending,
                   evClosed, cancelled, signalled, wgClosed, unit, inFlightAtSignal, droppedTicks, declared, ctorErr>>

\* waitForInterrupt returns "received signal ..."; main logs and returns,
\* which runs the deferred calls last-registered first.
MainSignal ==
    /\ pc["main"] = "waitForInterrupt"
    /\ pc' = [pc EXCEPT !["main"] = "closeEventChannel"]
    /\ signalled' = TRUE
    /\ inFlightAtSignal' = InFlight("worker")
    /\ UNCHANGED <<dev, fw, peers, connectedKeys, msg, tickC, tickerRunning, evPending,
                   evClosed, cancelled, wgClosed, unit, droppedTicks, declared, ctorErr>>

\* defer close(eventChannel); what the subscriber was about to send is gone
MainCloseEventChannel ==
    /\ pc["main"] = "closeEventChannel"
    /\ pc' = [pc EXCEPT !["main"] = "shutdown"]
    /\ evClosed' = TRUE
    /\ evPending' = FALSE
    /\ UNCHANGED <<dev, fw, peers, connectedKeys, msg, tickC, tickerRunning,
                   cancelled, signalled, wgClosed, unit, inFlightAtSignal, droppedTicks, declared, ctorErr>>

\* defer shutdown(): cancels shutdownCtx
MainShutdown ==
    /\ pc["main"] = "shutdown"
    /\ pc' = [pc EXCEPT !["main"] = "wgClose"]
    /\ cancelled' = TRUE
    /\ UNCHANGED <<dev, fw, peers, connectedKeys, msg, tickC, tickerRunning, evPending,
                   evClosed, signalled, wgClosed, unit, inFlightAtSignal, droppedTicks, declared, ctorErr>>

\* defer wg.Close()
MainWgClose ==
    /\ pc["main"] = "wgClose"
    /\ pc' = [pc EXCEPT !["main"] = "metricsClose"]
    /\ wgClosed' = TRUE
    /\ UNCHANGED <<dev, fw, peers, connectedKeys, msg, tickC, tickerRunning, evPending,
                   evClosed, cancelled, signalled, unit, inFlightAtSignal, droppedTicks, declared, ctorErr>>

\* defer metrics.Close(); main has returned and the process is gone
MainExit ==
    /\ pc["main"] = "metricsClose"
    /\ pc' = [pc EXCEPT !["main"] = "exited"]
    /\ UNCHANGED <<dev, fw, peers, connectedKeys, msg, tickC, tickerRunning, evPending,
                   evClosed, cancelled, signalled, wgClosed, unit, inFlightAtSignal, droppedTicks, declared, ctorErr>>

\* ------------------------------------------------------ trigger sources
\* The subscriber delivers events after Subscribe returned and until the
\* channel is closed.
Subscribed == pc["main"] \in {"go", "waitForInterrupt", "closeEventChannel"}

\* The subscriber blocks sending an event on the unbuffered eventChannel.
SubscriberSend ==
    /\ Alive /\ Subscribed /\ ~evClosed
    /\ ~evPending
    /\ evPending' = TRUE
    /\ UNCHANGED <<pc, dev, fw, peers, connectedKeys, msg, tickC, tickerRunning,
                   evClosed, cancelled, signalled, wgClosed, unit, inFlightAtSignal, droppedTicks, declared, ctorErr>>

\* Mutant of Parked: ticks are received apart from the loop that runs the
\* units of work, so a receiver is ready even while one is in flight.
ParkedOrBusy == tickC = 0

\* The worker is blocked in its select with no case ready.
Parked ==
    /\ pc["worker"] = "select"
    /\ tickC = 0 /\ ~evPending /\ ~evClosed /\ ~cancelled

\* The ticker's send of a tick succeeds only if a receiver is waiting.
TickerCanSend == Parked

\* The ticker fires: the tick is handed to the waiting worker, or dropped.
TickerFire ==
    /\ Alive /\ tickerRunning
    /\ IF TickerCanSend
         THEN /\ tickC' = tickC + 1
              /\ droppedTicks' = 0
         ELSE /\ droppedTicks < MaxDropped
              /\ tickC' = tickC
              /\ droppedTicks' = droppedTicks + 1
    /\ UNCHANGED <<pc, dev, fw, peers, connectedKeys, msg, tickerRunning, evPending,
                   evClosed, cancelled, signalled, wgClosed, unit, inFlightAtSignal, declared, ctorErr>>

\* ------------------------------------------------------ the worker loop
\* case msg := <-eventChannel: handleEvent(msg)
\* The worker receives the event e the subscriber is sending; the closed
\* channel is always ready and yields the zero event.
WorkerRecvEvent(e) ==
    /\ Alive /\ pc["worker"] = "select" /\ tickC = 0
    /\ IF evClosed THEN e = ZeroEvent ELSE evPending
    /\ msg' = e
    /\ unit' = BeginUnit("worker", "event", e)
    /\ evPending' = FALSE
    /\ droppedTicks' = 0
    /\ pc' = [pc EXCEPT !["worker"] = "handleEvent"]
    /\ UNCHANGED <<dev, fw, peers, connectedKeys, tickC, tickerRunning,
                   evClosed, cancelled, signalled, wgClosed, inFlightAtSignal, declared, ctorErr>>

\* case <-ticker.C: synchronize(), run synchronously in the worker
WorkerRecvTick ==
    /\ Alive /\ pc["worker"] = "select" /\ tickC > 0
    /\ tickC' = tickC - 1
    /\ unit' = BeginUnit("worker", "sync", NoEvent)
    /\ droppedTicks' = 0
    /\ pc' = [pc EXCEPT !["worker"] = "GetWireguardPeers"]
    /\ UNCHANGED <<dev, fw, peers, connectedKeys, msg, tickerRunning, evPending,
                   evClosed, cancelled, signalled, wgClosed, inFlightAtSignal, declared, ctorErr>>

\* case <-shutdownCtx.Done(): ticker.Stop(); return
WorkerDone ==
    /\ Alive /\ pc["worker"] = "select" /\ tickC = 0
    /\ cancelled
    /\ pc' = [pc EXCEPT !["worker"] = "returned"]
    /\ tickerRunning' = FALSE
    /\ UNCHANGED <<dev, fw, peers, connectedKeys, msg, tickC, evPending,
                   evClosed, cancelled, signalled, wgClosed, unit, inFlightAtSignal, droppedTicks, declared, ctorErr>>

\* ------------------------------------------------------- handleEvent()
\* Mutant of HandleAddPeer: the two calls of the ADD case are swapped.
HandleAddPortforwardingFirst ==
    /\ Alive /\ pc["worker"] = "handleEvent" /\ msg.Action = "ADD"
    /\ fw' = PfAdd(fw, msg.Peer)
    /\ unit' = Logged(Call("AddPortforwarding", <<msg.Peer>>, {}, TRUE))
    /\ pc' = [pc EXCEPT !["worker"] = "AddPortforwarding"]
    /\ declared' = DeclaredByEvent(msg.Peer.Pubkey, msg.Peer)
    /\ UNCHANGED <<dev, peers, connectedKeys, msg, tickC, tickerRunning, evPending,
                   evClosed, cancelled, signalled, wgClosed, inFlightAtSignal, droppedTicks, ctorErr>>

\* case "ADD": wg.AddPeer(event.Peer)
HandleAddPeer ==
    /\ Alive /\ pc["worker"] = "handleEvent" /\ msg.Action = "ADD"
    /\ dev' = WgAddPeer(dev, msg.Peer)
    /\ unit' = Logged(Call("AddPeer", <<msg.Peer>>, {}, TRUE))
    /\ pc' = [pc EXCEPT !["worker"] = "AddPortforwarding"]
    /\ declared' = DeclaredByEvent(msg.Peer.Pubkey, msg.Peer)
    /\ UNCHANGED <<fw, peers, connectedKeys, msg, tickC, tickerRunning, evPending,
                   evClosed, cancelled, signalled, wgClosed, inFlightAtSignal, droppedTicks, ctorErr>>

\* case "ADD": pf.AddPortforwarding(event.Peer)
HandleAddPortforwarding ==
    /\ Alive /\ pc["worker"] = "AddPortforwarding"
    /\ fw' = PfAdd(fw, msg.Peer)
    /\ unit' = Logged(Call("AddPortforwarding", <<msg.Peer>>, {}, TRUE))
    /\ pc' = [pc EXCEPT !["worker"] = "select"]
    /\ msg' = NoEvent
    /\ inFlightAtSignal' = FALSE
    /\ UNCHANGED <<dev, peers, connectedKeys, tickC, tickerRunning, evPending,
                   evClosed, cancelled, signalled, wgClosed, droppedTicks, declared, ctorErr>>

\* Mutant of HandleRemovePeer: the REMOVE case forgets wg.RemovePeer and goes
\* straight on to the Portforward manager.
HandleRemovePeerSkipsWireguard ==
    /\ Alive /\ pc["worker"] = "handleEvent" /\ msg.Action = "REMOVE"
    /\ unit' = Logged(Call("RemovePeer", <<msg.Peer>>, {}, TRUE))
    /\ pc' = [pc EXCEPT !["worker"] = "RemovePortforwarding"]
    /\ declared' = DeclaredByEvent(msg.Peer.Pubkey, ZeroPeer)
    /\ UNCHANGED <<dev, fw, peers, connectedKeys, msg, tickC, tickerRunning, evPending,
                   evClosed, cancelled, signalled, wgClosed, inFlightAtSignal, droppedTicks, ctorErr>>

\* case "REMOVE": wg.RemovePeer(event.Peer)
HandleRemovePeer ==
    /\ Alive /\ pc["worker"] = "handleEvent" /\ msg.Action = "REMOVE"
    /\ dev' = WgRemovePeer(dev, msg.Peer)
    /\ unit' = Logged(Call("RemovePeer", <<msg.Peer>>, {}, TRUE))
    /\ pc' = [pc EXCEPT !["worker"] = "RemovePortforwarding"]
    /\ declared' = DeclaredByEvent(msg.Peer.Pubkey, ZeroPeer)
    /\ UNCHANGED <<fw, peers, connectedKeys, msg, tickC, tickerRunning, evPending,
                   evClosed, cancelled, signalled, wgClosed, inFlightAtSignal, droppedTicks, ctorErr>>

\* case "REMOVE": pf.RemovePortforwarding(event.Peer)
HandleRemovePortforwarding ==
    /\ Alive /\ pc["worker"] = "RemovePortforwarding"
    /\ fw' = PfRemove(fw, msg.Peer)
    /\ unit' = Logged(Call("RemovePortforwarding", <<msg.Peer>>, {}, TRUE))
    /\ pc' = [pc EXCEPT !["worker"] = "select"]
    /\ msg' = NoEvent
    /\ inFlightAtSignal' = FALSE
    /\ UNCHANGED <<dev, peers, connectedKeys, tickC, tickerRunning, evPending,
                   evClosed, cancelled, signalled, wgClosed, droppedTicks, declared, ctorErr>>

\* Mutant of HandleUpdatePorts: the case also (re-)adds the peer to WireGuard.
HandleUpdatePortsAddsPeer ==
    /\ Alive /\ pc["worker"] = "handleEvent" /\ msg.Action = "UPDATE_PORTS"
    /\ dev' = WgAddPeer(dev, msg.Peer)
    /\ fw' = PfUpdateSingle(fw, msg.Peer)
    /\ unit' = Logged(Call("UpdateSinglePeerPortforwarding", <<msg.Peer>>, {}, TRUE))
    /\ pc' = [pc EXCEPT !["worker"] = "select"]
    /\ msg' = NoEvent
    /\ inFlightAtSignal' = FALSE
    /\ declared' = IF msg.Peer.Pubkey \in DeclaredKeys
                    THEN DeclaredByEvent(msg.Peer.Pubkey, msg.Peer) ELSE declared
    /\ UNCHANGED <<peers, connectedKeys, tickC, tickerRunning, evPending,
                   evClosed, cancelled, signalled, wgClosed, droppedTicks, ctorErr>>

\* case "UPDATE_PORTS": pf.UpdateSinglePeerPortforwarding(event.Peer)
HandleUpdatePorts ==
    /\ Alive /\ pc["worker"] = "handleEvent" /\ msg.Action = "UPDATE_PORTS"
    /\ fw' = PfUpdateSingle(fw, msg.Peer)
    /\ unit' = Logged(Call("UpdateSinglePeerPortforwarding", <<msg.Peer>>, {}, TRUE))
    /\ pc' = [pc EXCEPT !["worker"] = "select"]
    /\ msg' = NoEvent
    /\ inFlightAtSignal' = FALSE
    /\ declared' = IF msg.Peer.Pubkey \in DeclaredKeys
                    THEN DeclaredByEvent(msg.Peer.Pubkey, msg.Peer) ELSE declared
    /\ UNCHANGED <<dev, peers, connectedKeys, tickC, tickerRunning, evPending,
                   evClosed, cancelled, signalled, wgClosed, droppedTicks, ctorErr>>

\* Mutant of HandleDefault: an unrecognised action is treated as a REMOVE.
HandleDefaultRemoves ==
    /\ Alive /\ pc["worker"] = "handleEvent"
    /\ msg.Action \notin {"ADD", "REMOVE", "UPDATE_PORTS"}
    /\ dev' = WgRemovePeer(dev, msg.Peer)
    /\ fw' = PfRemove(fw, msg.Peer)
    /\ pc' = [pc EXCEPT !["worker"] = "select"]
    /\ msg' = NoEvent
    /\ inFlightAtSignal' = FALSE
    /\ UNCHANGED <<peers, connectedKeys, tickC, tickerRunning, evPending,
                   evClosed, cancelled, signalled, wgClosed, unit, droppedTicks, declared, ctorErr>>

\* default: bad data from the API, ignore it
HandleDefault ==
    /\ Alive /\ pc["worker"] = "handleEvent"
    /\ msg.Action \notin {"ADD", "REMOVE", "UPDATE_PORTS"}
    /\ pc' = [pc EXCEPT !["worker"] = "select"]
    /\ msg' = NoEvent
    /\ inFlightAtSignal' = FALSE
    /\ UNCHANGED <<dev, fw, peers, connectedKeys, tickC, tickerRunning, evPending,
                   evClosed, cancelled, signalled, wgClosed, unit, droppedTicks, declared, ctorErr>>

\* ------------------------------------------------------- specification
Next ==
    \/ \E ok \in BOOLEAN : MainNewWireguard(ok)
    \/ \E ok \in BOOLEAN : MainNewPortforward(ok)
    \/ MainSynchronize
    \/ \E ok \in BOOLEAN : MainSubscribe(ok)
    \/ MainGoWorker
    \/ MainSignal
    \/ MainCloseEventChannel
    \/ MainShutdown
    \/ MainWgClose
    \/ MainExit
    \/ SubscriberSend
    \/ TickerFire
    \/ \E e \in Events : WorkerRecvEvent(e)
    \/ WorkerRecvTick
    \/ WorkerDone
    \/ \E g \in Procs, l \in DesiredLists : SyncGetPeersOk(g, l)
    \/ \E g \in Procs : SyncGetPeersFail(g)
    \/ \E g \in Procs, ck \in SUBSET {"kA", "kB"} : SyncUpdatePeers(g, ck)
    \/ \E g \in Procs : SyncUpdatePortforwarding(g)
    \/ \E g \in Procs : SyncPostOk(g)
    \/ \E g \in Procs : SyncPostFail(g)
    \/ HandleAddPeer
    \/ HandleAddPortforwarding
    \/ HandleRemovePeer
    \/ HandleRemovePortforwarding
    \/ HandleUpdatePorts
    \/ HandleDefault

Spec == Init /\ [][Next]_vars

\* ---------------------------------------------------- TestPortforward()
\* The Portforward manager driven directly, as portforward_test.go drives it:
\* the chains start empty (setupIptables), then the manager's operations are
\* called one after another on whatever the calls before have left.  The
\* history keeps the last two calls and the tables before the first of them.
MaxCalls == 2

InitPf ==
    /\ pc = [g \in Procs |-> IF g = "main" THEN "TestPortforward" ELSE "unborn"]
    /\ dev = [i \in Interfaces |-> {}]
    /\ fw = EmptyFirewall
    /\ peers = [g \in Procs |-> <<>>]
    /\ connectedKeys = [g \in Procs |-> {}]
    /\ msg = NoEvent
    /\ tickC = 0
    /\ tickerRunning = FALSE
    /\ evPending = FALSE
    /\ evClosed = FALSE
    /\ cancelled = FALSE
    /\ signalled = FALSE
    /\ wgClosed = FALSE
    /\ unit = BeginUnit("main", "test", NoEvent)
    /\ inFlightAtSignal = FALSE
    /\ droppedTicks = 0
    /\ declared = NothingDeclared
    /\ ctorErr = "none"

\* What a call of the test leaves alone
TestFrame ==
    UNCHANGED <<pc, dev, peers, connectedKeys, msg, tickC, tickerRunning, evPending, evClosed,
                cancelled, signalled, wgClosed, inFlightAtSignal, droppedTicks, declared, ctorErr>>

\* pf.UpdatePortforwarding(l)
TestUpdatePortforwarding(l) ==
    /\ pc["main"] = "TestPortforward" /\ Len(unit.calls) < MaxCalls
    /\ fw' = PfUpdate(fw, l)
    /\ unit' = Logged(Call("UpdatePortforwarding", l, {}, TRUE))
    /\ TestFrame

\* pf.AddPortforwarding(p)
TestAddPortforwarding(p) ==
    /\ pc["main"] = "TestPortforward" /\ Len(unit.calls) < MaxCalls
    /\ fw' = PfAdd(fw, p)
    /\ unit' = Logged(Call("AddPortforwarding", <<p>>, {}, TRUE))
    /\ TestFrame

\* pf.RemovePortforwarding(p)
TestRemovePortforwarding(p) ==
    /\ pc["main"] = "TestPortforward" /\ Len(unit.calls) < MaxCalls
    /\ fw' = PfRemove(fw, p)
    /\ unit' = Logged(Call("RemovePortforwarding", <<p>>, {}, TRUE))
    /\ TestFrame

\* pf.UpdateSinglePeerPortforwarding(p)
TestUpdateSinglePeerPortforwarding(p) ==
    /\ pc["main"] = "TestPortforward" /\ Len(unit.calls) < MaxCalls
    /\ fw' = PfUpdateSingle(fw, p)
    /\ unit' = Logged(Call("UpdateSinglePeerPortforwarding", <<p>>, {}, TRUE))
    /\ TestFrame

\* The next subtest starts on the tables the one before has left.
TestNextSubtest ==
    /\ pc["main"] = "TestPortforward" /\ unit.calls # <<>>
    /\ unit' = BeginUnit("main", "test", NoEvent)
    /\ UNCHANGED fw
    /\ TestFrame

NextPf ==
    \/ \E l \in DesiredLists : TestUpdatePortforwarding(l)
    \/ \E p \in PeerUniverse : TestAddPortforwarding(p)
    \/ \E p \in PeerUniverse : TestRemovePortforwarding(p)
    \/ \E p \in PeerUniverse : TestUpdateSinglePeerPortforwarding(p)
    \/ TestNextSubtest

SpecPf == InitPf /\ [][NextPf]_vars

\* ------------------------------------- full syncs with per-peer failures
\* The cycle when mutations of single peers fail in the managers.  Neither
\* wg.UpdatePeers nor pf.UpdatePortforwarding returns an error to
\* synchronize(); a manager logs and counts the failure of a peer and goes
\* on with the next one.  bad is the set of public keys whose mutations fail
\* in the pass.
MaxFailList == 2

\* The lists fetched in these cycles: at most MaxFailList records, keys unique
FetchedLists ==
    { l \in UNION { [1..n -> {PeerA, PeerB}] : n \in 0..MaxFailList } :
        \A i, j \in DOMAIN l : l[i].Pubkey = l[j].Pubkey => i = j }

\* The addresses of family fam that belong to the peers of the keys bad
BadAddresses(bad, fam) ==
    { BareAddress(PeerCidr(p, fam)) :
        p \in { q \in PeerUniverse : q.Pubkey \in bad /\ PeerCidr(q, fam) # NoCidr } }

\* wg.UpdatePeers(peers) when the device refuses the changes of the keys bad
WgUpdatePeersFailing(dv, l, bad) ==
    [i \in Interfaces |->
        { e \in dv[i] : e.Pubkey \in Keys(l) \cup bad }
          \cup { [Pubkey |-> l[j].Pubkey, AllowedIPs |-> AllowedIPs(l[j])] :
                   j \in { n \in DOMAIN l : l[n].Pubkey \notin DevKeys(dv[i]) \cup bad } }]

\* pf.UpdatePortforwarding(peers) when iptables/ipset refuse the changes that
\* concern the peers of the keys bad
PfUpdateFailing(t, l, bad) ==
    Firewall([f \in Families |-> [c \in Chains |->
                  LET want == DesiredRules(c, f, l)
                      Keep(r) == r.dest \in BadAddresses(bad, f) \/ InSeq(r, want)
                      Doable(r) == r.dest \notin BadAddresses(bad, f)
                  IN  AppendAllUnique(SelectSeq(t.rules[f][c], Keep), SelectSeq(want, Doable))]],
             [f \in Families |->
                  ({ BareAddress(PeerCidr(l[i], f)) : i \in { j \in DOMAIN l : HasRules(l[j], f) } }
                      \ BadAddresses(bad, f))
                  \cup (t.sets[f] \cap BadAddresses(bad, f))])

\* A call-history entry of a manager pass in which the peers bad failed
PassCall(op, ps, ks, bad) == [op |-> op, peers |-> ps, keys |-> ks, ok |-> bad = {}, bad |-> bad]

\* Mutant of SyncUpdatePeersFailing: synchronize() gives the cycle up when a
\* peer failed in wg.UpdatePeers.
SyncUpdatePeersAbortsOnFailure(g, ck, bad) ==
    /\ Alive /\ pc[g] = "UpdatePeers"
    /\ ck \subseteq ConnectableKeys(dev, peers[g])
    /\ dev' = WgUpdatePeersFailing(dev, peers[g], bad)
    /\ unit' = Logged(PassCall("UpdatePeers", peers[g], ck, bad))
    /\ IF bad = {}
         THEN /\ connectedKeys' = [connectedKeys EXCEPT ![g] = ck]
              /\ pc' = [pc EXCEPT ![g] = "UpdatePortforwarding"]
              /\ UNCHANGED <<peers, inFlightAtSignal>>
         ELSE /\ pc' = [pc EXCEPT ![g] = ReturnTo(g)]
              /\ peers' = [peers EXCEPT ![g] = <<>>]
              /\ connectedKeys' = [connectedKeys EXCEPT ![g] = {}]
              /\ inFlightAtSignal' = (inFlightAtSignal /\ g # "worker")
    /\ UNCHANGED <<fw, msg, tickC, tickerRunning, evPending,
                   evClosed, cancelled, signalled, wgClosed, droppedTicks, declared, ctorErr>>

\* connectedKeys := wg.UpdatePeers(peers), the peers bad failing
SyncUpdatePeersFailing(g, ck, bad) ==
    /\ Alive /\ pc[g] = "UpdatePeers"
    /\ ck \subseteq ConnectableKeys(dev, peers[g])
    /\ dev' = WgUpdatePeersFailing(dev, peers[g], bad)
    /\ connectedKeys' = [connectedKeys EXCEPT ![g] = ck]
    /\ unit' = Logged(PassCall("UpdatePeers", peers[g], ck, bad))
    /\ pc' = [pc EXCEPT ![g] = "UpdatePortforwarding"]
    /\ UNCHANGED <<fw, peers, msg, tickC, tickerRunning, evPending,
                   evClosed, cancelled, signalled, wgClosed, inFlightAtSignal, droppedTicks, declared, ctorErr>>

\* pf.UpdatePortforwarding(peers), the peers bad failing
SyncUpdatePortforwardingFailing(g, bad) ==
    /\ Alive /\ pc[g] = "UpdatePortforwarding"
    /\ fw' = PfUpdateFailing(fw, peers[g], bad)
    /\ unit' = Logged(PassCall("UpdatePortforwarding", peers[g], {}, bad))
    /\ pc' = [pc EXCEPT ![g] = "PostWireguardConnections"]
    /\ UNCHANGED <<dev, peers, connectedKeys, msg, tickC, tickerRunning, evPending,
                   evClosed, cancelled, signalled, wgClosed, inFlightAtSignal, droppedTicks, declared, ctorErr>>

NextFail ==
    \/ \E ok \in BOOLEAN : MainNewWireguard(ok)
    \/ \E ok \in BOOLEAN : MainNewPortforward(ok)
    \/ MainSynchronize
    \/ \E ok \in BOOLEAN : MainSubscribe(ok)
    \/ MainGoWorker
    \/ TickerFire
    \/ WorkerRecvTick
    \/ \E g \in Procs, l \in FetchedLists : SyncGetPeersOk(g, l)
    \/ \E g \in Procs : SyncGetPeersFail(g)
    \/ \E g \in Procs, ck \in SUBSET AllKeys, bad \in SUBSET AllKeys : SyncUpdatePeersFailing(g, ck, bad)
    \/ \E g \in Procs, bad \in SUBSET AllKeys : SyncUpdatePortforwardingFailing(g, bad)
    \/ \E g \in Procs : SyncPostOk(g)
    \/ \E g \in Procs : SyncPostFail(g)

SpecFail == Init /\ [][NextFail]_vars

\* ----------------------------------------------- running without shutdown
\* The agent as long as no signal arrives: main parks in waitForInterrupt for
\* good.  The Go scheduler runs a goroutine that can run, and every call to
\* the API returns, with a result or with the client's timeout error
\* (http.Client{Timeout: *apiTimeout}), so a step of the worker that stays
\* possible is taken.  The API and the subscriber deliver one peer, its port
\* list changing, and an event of an unknown action.
LiveLists == {<<>>, <<PeerA>>}

LiveEvents ==
    {Event("ADD", PeerA), Event("REMOVE", PeerA), Event("UPDATE_PORTS", PeerAUpdated),
     Event("BOGUS", PeerA)}

WorkerStep ==
    \/ \E e \in LiveEvents : WorkerRecvEvent(e)
    \/ WorkerRecvTick
    \/ \E l \in LiveLists : SyncGetPeersOk("worker", l)
    \/ SyncGetPeersFail("worker")
    \/ \E ck \in SUBSET {"kA", "kB"} : SyncUpdatePeers("worker", ck)
    \/ SyncUpdatePortforwarding("worker")
    \/ SyncPostOk("worker")
    \/ SyncPostFail("worker")
    \/ HandleAddPeer
    \/ HandleAddPortforwarding
    \/ HandleRemovePeer
    \/ HandleRemovePortforwarding
    \/ HandleUpdatePorts
    \/ HandleDefault

MainStartStep ==
    \/ \E ok \in BOOLEAN : MainNewWireguard(ok)
    \/ \E ok \in BOOLEAN : MainNewPortforward(ok)
    \/ MainSynchronize
    \/ \E l \in LiveLists : SyncGetPeersOk("main", l)
    \/ SyncGetPeersFail("main")
    \/ \E ck \in SUBSET {"kA", "kB"} : SyncUpdatePeers("main", ck)
    \/ SyncUpdatePortforwarding("main")
    \/ SyncPostOk("main")
    \/ SyncPostFail("main")
    \/ \E ok \in BOOLEAN : MainSubscribe(ok)
    \/ MainGoWorker

NextLive ==
    \/ MainStartStep
    \/ SubscriberSend
    \/ TickerFire
    \/ WorkerStep

SpecLive == Init /\ [][NextLive]_vars /\ WF_vars(WorkerStep) /\ WF_vars(MainStartStep)

TypeOK ==
    /\ ctorErr \in {"none", "wireguard", "portforward"}
    /\ declared.fetched \in BOOLEAN
    /\ \A k \in AllKeys : declared.peer[k] \in PeerUniverse \cup {ZeroPeer}
    /\ pc["main"] \in {"NewWireguard", "NewPortforward", "synchronize", "Subscribe", "go",
                       "waitForInterrupt", "closeEventChannel", "shutdown", "wgClose",
                       "metricsClose", "exited", "fatal"} \cup SyncLabels
    /\ pc["worker"] \in {"unborn", "select", "returned"} \cup SyncLabels \cup EventLabels
    /\ tickC \in 0..1

\* =============================================================== claims
\* Shorthands over the history of the unit of work begun last.
Ops(cs) == [i \in DOMAIN cs |-> cs[i].op]

IsPrefix(s, t) == Len(s) <= Len(t) /\ \A i \in DOMAIN s : s[i] = t[i]

SyncOps == <<"GetWireguardPeers", "UpdatePeers", "UpdatePortforwarding", "PostWireguardConnections">>

FetchFailed == unit.kind = "sync" /\ unit.calls # <<>> /\ ~unit.calls[1].ok

FetchSucceeded == unit.kind = "sync" /\ unit.calls # <<>> /\ unit.calls[1].ok

UnitOver == unit.proc \in Procs /\ ~InFlight(unit.proc)

\* C1: at most one unit of work (the initial sync, a timer sync, one event)
\* is inside the managers in any reachable state, and the unit in flight is
\* the one begun last.
C1_OneUnitAtATime ==
    /\ Cardinality({ g \in Procs : InFlight(g) }) <= 1
    /\ \A g \in Procs : InFlight(g) => unit.proc = g

\* C1 witness: the worker is inside a sync while an event waits at the
\* channel and ticks keep firing.
C1_Witness ==
    /\ pc["worker"] = "UpdatePortforwarding"
    /\ evPending /\ droppedTicks > 0

\* C2: a tick that fires while the worker is processing a trigger is dropped,
\* not queued: ticker.C holds no tick while the worker is away from its
\* select, whatever number of ticks fired meanwhile, so a full sync of the
\* worker starts only from a tick handed over at the select.
C2_TickDroppedNotQueued ==
    /\ pc["worker"] # "select" => tickC = 0
    /\ tickC <= 1

\* C2 witness: two ticks fired during one unit of work of the worker.
C2_Witness == InFlight("worker") /\ droppedTicks >= 2

\* C3: a full sync whose fetch failed has made no other call, has returned,
\* and has left the peer table and the firewall as they were when it began.
C3_FetchFailureMutatesNothing ==
    FetchFailed =>
        /\ Len(unit.calls) = 1
        /\ UnitOver
        /\ Tables = unit.pre

\* C3 witness: a timer sync of the worker failed its fetch on non-empty tables.
C3_Witness ==
    /\ FetchFailed /\ unit.proc = "worker"
    /\ dev["wg0"] # {} /\ fw # EmptyFirewall

\* C4: in a full sync whose fetch succeeded the calls are UpdatePeers, then
\* UpdatePortforwarding, then PostWireguardConnections, the two
\* reconciliations take the fetched list, each has completed before the
\* next begins, and the report carries the keys UpdatePeers returned in
\* this cycle.
C4_SyncStepsInOrder ==
    FetchSucceeded =>
        LET cs == unit.calls
            l  == cs[1].peers
        IN  /\ IsPrefix(Ops(cs), SyncOps)
            /\ Len(cs) < 4 <=> InFlight(unit.proc)
            /\ Len(cs) = 1 => Tables = unit.pre
            /\ Len(cs) >= 2 => /\ cs[2].peers = l
                               /\ dev = WgUpdatePeers(unit.pre.dev, l)
            /\ Len(cs) = 2 => fw = unit.pre.fw
            /\ Len(cs) >= 3 => /\ cs[3].peers = l
                               /\ fw = PfUpdate(unit.pre.fw, l)
            /\ Len(cs) = 4 => cs[4].keys = cs[2].keys

\* C4 witness: a complete cycle of the worker that reported a connected key.
C4_Witness ==
    /\ FetchSucceeded /\ unit.proc = "worker"
    /\ Len(unit.calls) = 4 /\ unit.calls[4].ok
    /\ unit.calls[4].keys # {}

\* C5: when the report fails, the peer table and the firewall are those the
\* two reconciliations of the cycle produced.
C5_ReportFailureKeepsState ==
    (FetchSucceeded /\ Len(unit.calls) = 4 /\ ~unit.calls[4].ok) =>
        /\ UnitOver
        /\ dev = WgUpdatePeers(unit.pre.dev, unit.calls[1].peers)
        /\ fw = PfUpdate(unit.pre.fw, unit.calls[1].peers)

\* C5 witness: the report failed in a cycle that changed both tables.
C5_Witness ==
    /\ FetchSucceeded /\ Len(unit.calls) = 4 /\ ~unit.calls[4].ok
    /\ dev # unit.pre.dev /\ fw # unit.pre.fw

\* C6: once the signal has been received the worker begins no unit of work.
C6_NoNewUnitAfterSignal ==
    [][(signalled /\ ~InFlight("worker")) => ~InFlight("worker")']_vars

\* C7: the unit of work in flight when the signal arrives has finished before
\* the event channel or the WireGuard device is closed and before the process
\* is gone.
C7_InFlightUnitFinishesBeforeTeardown ==
    (evClosed \/ wgClosed \/ pc["main"] = "exited") => ~inFlightAtSignal

\* C8: an ADD event calls wg.AddPeer and then pf.AddPortforwarding, a REMOVE
\* event wg.RemovePeer and then pf.RemovePortforwarding, each with the
\* event's peer, the WireGuard call having completed before the portforward
\* call is made.
C8_EventStepsInOrder ==
    (unit.kind = "event" /\ unit.trigger.Action \in {"ADD", "REMOVE"}) =>
        LET cs  == unit.calls
            p   == unit.trigger.Peer
            add == unit.trigger.Action = "ADD"
        IN  /\ IsPrefix(Ops(cs), IF add THEN <<"AddPeer", "AddPortforwarding">>
                                 ELSE <<"RemovePeer", "RemovePortforwarding">>)
            /\ \A i \in DOMAIN cs : cs[i].peers = <<p>>
            /\ Len(cs) < 2 <=> InFlight("worker")
            /\ Len(cs) = 0 => Tables = unit.pre
            /\ Len(cs) >= 1 => dev = IF add THEN WgAddPeer(unit.pre.dev, p)
                                      ELSE WgRemovePeer(unit.pre.dev, p)
            /\ Len(cs) = 1 => fw = unit.pre.fw
            /\ Len(cs) = 2 => fw = IF add THEN PfAdd(unit.pre.fw, p)
                                    ELSE PfRemove(unit.pre.fw, p)

\* C8 witness: an ADD event has been handled and changed both managers.
C8_Witness ==
    /\ unit.kind = "event" /\ unit.trigger.Action = "ADD"
    /\ Len(unit.calls) = 2
    /\ dev # unit.pre.dev /\ fw # unit.pre.fw

\* C9: handling an UPDATE_PORTS event leaves the WireGuard peer table as it
\* was; its one call is pf.UpdateSinglePeerPortforwarding.
C9_UpdatePortsLeavesWireguard ==
    (unit.kind = "event" /\ unit.trigger.Action = "UPDATE_PORTS") =>
        /\ dev = unit.pre.dev
        /\ IsPrefix(Ops(unit.calls), <<"UpdateSinglePeerPortforwarding">>)
        /\ unit.calls = <<>> <=> InFlight("worker")

\* C9 witness: an UPDATE_PORTS event changed the firewall of an installed peer.
C9_Witness ==
    /\ unit.kind = "event" /\ unit.trigger.Action = "UPDATE_PORTS"
    /\ unit.calls # <<>>
    /\ fw # unit.pre.fw /\ dev["wg0"] # {}

\* C10: an event with an unrecognised action makes no manager call, changes
\* neither table, and the worker is back at its select afterwards.
C10_UnknownActionIgnored ==
    (unit.kind = "event" /\ unit.trigger.Action \notin {"ADD", "REMOVE", "UPDATE_PORTS"}) =>
        /\ unit.calls = <<>>
        /\ Tables = unit.pre
        /\ pc["worker"] \in {"handleEvent", "select", "returned"}

\* C10 witness: a malformed event was handled on non-empty tables and the
\* worker waits for the next trigger.
C10_Witness ==
    /\ unit.kind = "event" /\ unit.trigger.Action = "BOGUS"
    /\ pc["worker"] = "select" /\ ~signalled
    /\ dev["wg0"] # {} /\ fw # EmptyFirewall

\* No unit of work is in flight in either goroutine.
Idle == \A g \in Procs : ~InFlight(g)

\* C11: whenever no unit of work is in flight, the set of public keys on the
\* WireGuard device is the key set of the list fetched last, with the key of
\* every ADD handled since put in and the key of every REMOVE handled since
\* taken out; UPDATE_PORTS events, unknown events and failed fetches leave it.
C11_DeviceKeysFollowDeclared ==
    (declared.fetched /\ Idle) => \A i \in Interfaces : DevKeys(dev[i]) = DeclaredKeys

\* C11 witness: after a fetch of a one-peer list an ADD event installed a second
\* key, and a later fetch failed without changing the device.
C11_Witness ==
    /\ declared.fetched /\ Idle /\ pc["worker"] = "select"
    /\ FetchFailed
    /\ DevKeys(dev["wg0"]) = {"kA", "kB"} /\ DeclaredKeys = {"kA", "kB"}

\* The rules of list rs that redirect to the address a
RulesTo(rs, a) == LET To(r) == r.dest = a IN SelectSeq(rs, To)

\* C12: whenever no unit of work is in flight after a successful fetch, every
\* peer on the WireGuard device whose declared port set is non-empty has
\* exactly one rule in the TCP chain and one in the UDP chain of each address
\* family it has an address in, and no forwarding rule exists for a peer that
\* is absent from the device or whose port set is empty.
C12_RulesMatchInstalledPeers ==
    (declared.fetched /\ Idle) =>
        \A f \in Families : \A c \in Chains :
            LET rs == fw.rules[f][c]
                Installed == { declared.peer[k] : k \in DevKeys(dev["wg0"]) \cap DeclaredKeys }
            IN  /\ \A p \in Installed :
                       PeerCidr(p, f) # NoCidr =>
                           RulesTo(rs, BareAddress(PeerCidr(p, f))) = PeerRules(c, f, p)
                /\ \A i \in DOMAIN rs :
                       \E p \in Installed :
                           HasRules(p, f) /\ rs[i].dest = BareAddress(PeerCidr(p, f))

\* Shorthands over the calls of the running subtest of TestPortforward.
TestCalls == IF unit.kind = "test" THEN unit.calls ELSE <<>>

NoDuplicates(s) == \A i, j \in DOMAIN s : s[i] = s[j] => i = j

Range(s) == { s[i] : i \in DOMAIN s }

\* C13: right after UpdatePortforwarding(L), whatever the tables held before,
\* every chain holds the rules L implies (those of its peers with an address
\* of the family and at least one port), each once, and nothing else; after
\* UpdatePortforwarding of a list followed by UpdatePortforwarding([]) no rule
\* is left.
C13_UpdateYieldsExactlyDesired ==
    (TestCalls # <<>> /\ TestCalls[Len(TestCalls)].op = "UpdatePortforwarding") =>
        LET l == TestCalls[Len(TestCalls)].peers
        IN  \A f \in Families : \A c \in Chains :
                /\ Range(fw.rules[f][c]) = Range(DesiredRules(c, f, l))
                /\ NoDuplicates(fw.rules[f][c])
                /\ l = <<>> => fw.rules[f][c] = <<>>

\* C13 witness: UpdatePortforwarding([A]) on tables holding another peer's
\* rules, then UpdatePortforwarding([]), and the chains are empty.
C13_Witness ==
    /\ Len(TestCalls) = 2
    /\ TestCalls[1] = Call("UpdatePortforwarding", <<PeerA>>, {}, TRUE)
    /\ TestCalls[2] = Call("UpdatePortforwarding", <<>>, {}, TRUE)
    /\ unit.pre.fw.rules["ipv4"]["TCP"] = <<Rule("TCP", "ipv4", PeerB)>>
    /\ fw.rules = EmptyFirewall.rules

\* C14: when UpdatePortforwarding(L) is called twice in a row, the tables after
\* the second call are the tables after the first, and no chain holds a rule
\* twice.
C14_UpdateIdempotent ==
    (/\ Len(TestCalls) = 2
     /\ TestCalls[1].op = "UpdatePortforwarding"
     /\ TestCalls[2] = TestCalls[1]) =>
        /\ fw = PfUpdate(unit.pre.fw, TestCalls[1].peers)
        /\ \A f \in Families : \A c \in Chains : NoDuplicates(fw.rules[f][c])

\* C14 witness: UpdatePortforwarding([A]) twice on tables that held the rules
\* of A's earlier port list.
C14_Witness ==
    /\ Len(TestCalls) = 2
    /\ TestCalls[1] = Call("UpdatePortforwarding", <<PeerAUpdated>>, {}, TRUE)
    /\ TestCalls[2] = TestCalls[1]
    /\ unit.pre.fw = PfAdd(EmptyFirewall, PeerA)
    /\ fw.rules["ipv6"]["UDP"] = <<Rule("UDP", "ipv6", PeerAUpdated)>>

\* The addresses of a peer
Addresses(p) == [f \in Families |-> PeerCidr(p, f)]

\* C15: after AddPortforwarding(p) followed by UpdateSinglePeerPortforwarding(q),
\* q having p's addresses, the rules that redirect to the peer are, in the TCP
\* and in the UDP chain of each family the peer has an address in, the one
\* rule listing q's ports sorted and without duplicates (none if q has no
\* port); no rule with p's port list is left.
C15_UpdateSingleReplacesRules ==
    (/\ Len(TestCalls) = 2
     /\ TestCalls[1].op = "AddPortforwarding"
     /\ TestCalls[2].op = "UpdateSinglePeerPortforwarding"
     /\ Addresses(TestCalls[1].peers[1]) = Addresses(TestCalls[2].peers[1])) =>
        LET p == TestCalls[1].peers[1]
            q == TestCalls[2].peers[1]
        IN  \A f \in Families : \A c \in Chains :
                PeerCidr(q, f) # NoCidr =>
                    /\ RulesTo(fw.rules[f][c], BareAddress(PeerCidr(q, f))) = PeerRules(c, f, q)
                    /\ Dports(p.Ports) # Dports(q.Ports) =>
                           ~InSeq(Rule(c, f, p), fw.rules[f][c])

\* C15 witness: the "update single" subtest: A added with ports 4321,1234,
\* then updated to 1234,4322,1337; the chain lists 1234,1337,4322.
C15_Witness ==
    /\ Len(TestCalls) = 2
    /\ TestCalls[1] = Call("AddPortforwarding", <<PeerA>>, {}, TRUE)
    /\ TestCalls[2] = Call("UpdateSinglePeerPortforwarding", <<PeerAUpdated>>, {}, TRUE)
    /\ fw.rules["ipv4"]["TCP"] =
           <<[chain |-> "TCP", proto |-> "tcp", ipset |-> "ipv4",
              dports |-> <<1234, 1337, 4322>>, dest |-> "10.99.0.1"]>>

\* The table t holds no rule that redirects to an address of p
NoRuleFor(t, p) ==
    \A f \in Families : \A c \in Chains :
        PeerCidr(p, f) = NoCidr \/ RulesTo(t.rules[f][c], BareAddress(PeerCidr(p, f))) = <<>>

\* The rules of t that do not redirect to an address of p
RulesOfOthers(t, p) ==
    [f \in Families |-> [c \in Chains |->
        LET Other(r) == PeerCidr(p, f) = NoCidr \/ r.dest # BareAddress(PeerCidr(p, f))
        IN  SelectSeq(t.rules[f][c], Other)]]

\* C16: from tables holding no rule for p, AddPortforwarding(p) followed by
\* RemovePortforwarding(p) gives back the rule table as it was; after the add
\* and after the remove the rules of the other peers are as they were.
C16_AddRemoveRoundTrip ==
    (/\ TestCalls # <<>>
     /\ TestCalls[1].op = "AddPortforwarding"
     /\ NoRuleFor(unit.pre.fw, TestCalls[1].peers[1])) =>
        LET p == TestCalls[1].peers[1]
        IN  /\ Len(TestCalls) = 1 => RulesOfOthers(fw, p) = RulesOfOthers(unit.pre.fw, p)
            /\ (Len(TestCalls) = 2 /\ TestCalls[2] = Call("RemovePortforwarding", <<p>>, {}, TRUE)) =>
                   fw.rules = unit.pre.fw.rules

\* C16 witness: the "add single" and "remove single" subtests run on tables
\* holding another peer's rules, which are still there, alone, at the end.
C16_Witness ==
    /\ Len(TestCalls) = 2
    /\ TestCalls[1] = Call("AddPortforwarding", <<PeerA>>, {}, TRUE)
    /\ TestCalls[2] = Call("RemovePortforwarding", <<PeerA>>, {}, TRUE)
    /\ unit.pre.fw.rules["ipv4"]["UDP"] = <<Rule("UDP", "ipv4", PeerB)>>
    /\ fw.rules = unit.pre.fw.rules

\* C17: once wireguard.New or portforward.New has failed, the process has
\* exited (log.Fatalf) and nothing else has happened or happens: no unit of
\* work was ever begun, no list fetched, the worker and the ticker were never
\* started, and the WireGuard device and the firewall are as the process
\* found them.
C17_ConstructorFailureStopsEverything ==
    ctorErr # "none" =>
        /\ pc["main"] = "fatal" /\ ~Alive
        /\ unit.proc = "none" /\ unit.calls = <<>>
        /\ Tables = unit.pre
        /\ ~declared.fetched
        /\ pc["worker"] = "unborn" /\ ~tickerRunning /\ msg = NoEvent

\* C17 witness: portforward.New failed after wireguard.New had succeeded, on
\* tables an earlier run had left populated.
C17_Witness ==
    /\ ctorErr = "portforward" /\ pc["main"] = "fatal"
    /\ dev["wg0"] # {} /\ fw # EmptyFirewall

\* An event of a known action has been handled to the end.
Handled(a) == unit.kind = "event" /\ unit.trigger.Action = a /\ pc["worker"] = "select"

\* C18: in every state reached by handling an ADD, REMOVE or UPDATE_PORTS
\* event, the calls handleEvent makes for the same event a second time leave
\* the WireGuard peer table and the firewall as they are; no chain holds a rule
\* twice after an ADD.
C18_DuplicateEventChangesNothing ==
    LET p == unit.trigger.Peer
    IN  /\ Handled("ADD") =>
               /\ WgAddPeer(dev, p) = dev /\ PfAdd(fw, p) = fw
               /\ \A f \in Families : \A c \in Chains :
                      Len(SelectSeq(fw.rules[f][c], LAMBDA r : r = Rule(c, f, p))) <= 1
        /\ Handled("REMOVE") => WgRemovePeer(dev, p) = dev /\ PfRemove(fw, p) = fw
        /\ Handled("UPDATE_PORTS") => PfUpdateSingle(fw, p) = fw

\* C18 witness: an ADD for a peer with ports was handled on tables that held
\* the peer already, as a duplicate delivery finds them.
C18_Witness ==
    /\ Handled("ADD") /\ unit.trigger.Peer = PeerA
    /\ unit.pre.dev = WgAddPeer(unit.pre.dev, PeerA)
    /\ unit.pre.fw = PfAdd(unit.pre.fw, PeerA)
    /\ Tables = unit.pre

\* C19: in a cycle whose fetch succeeded, whichever peers fail in a manager:
\* the calls are still made in order up to the connection report, which ends
\* the cycle; after wg.UpdatePeers every key that did not fail is on the
\* device exactly if the list names it; after pf.UpdatePortforwarding the
\* rules that do not concern a failed peer are exactly those the list implies.
C19_PeerFailureDoesNotStopPass ==
    FetchSucceeded =>
        LET cs == unit.calls
            l == cs[1].peers
        IN  /\ IsPrefix(Ops(cs), SyncOps)
            /\ Len(cs) < 4 <=> InFlight(unit.proc)
            /\ Len(cs) >= 2 =>
                   \A k \in AllKeys \ cs[2].bad :
                       k \in DevKeys(dev["wg0"]) <=> k \in Keys(l)
            /\ Len(cs) >= 3 =>
                   \A f \in Families : \A c \in Chains :
                       LET Good(r) == r.dest \notin BadAddresses(cs[3].bad, f)
                       IN  Range(SelectSeq(fw.rules[f][c], Good))
                             = Range(SelectSeq(DesiredRules(c, f, l), Good))

\* C19 witness: the list names A and B; A failed in both managers, B was
\* installed in both all the same, and the report was sent.
C19_Witness ==
    /\ FetchSucceeded /\ Len(unit.calls) = 4
    /\ unit.calls[1].peers = <<PeerA, PeerB>>
    /\ unit.calls[2].bad = {"kA"} /\ unit.calls[3].bad = {"kA"}
    /\ unit.pre.dev["wg0"] = {} /\ unit.pre.fw = EmptyFirewall
    /\ DevKeys(dev["wg0"]) = {"kB"}
    /\ fw.rules["ipv4"]["TCP"] = <<Rule("TCP", "ipv4", PeerB)>>
    /\ unit.calls[4].ok

\* C20: as long as no shutdown signal arrives, a unit of work the worker has
\* started ends with the worker back at its select, whether the cycle made its
\* report or ended in a failed (or timed-out) fetch or report; a tick handed
\* to the waiting worker leads to a new full sync; an event the subscriber
\* holds out while the worker is busy leads to the worker handling an event.
C20_WorkerAlwaysReturnsToWaiting ==
    /\ [](((unit.proc = "worker" /\ ~InFlight("worker"))) => pc["worker"] = "select")
    /\ (InFlight("worker") ~> pc["worker"] = "select")
    /\ (tickC > 0 ~> pc["worker"] = "GetWireguardPeers")
    /\ (evPending ~> pc["worker"] = "handleEvent")

\* C20 witness: the worker's last cycle ended in a failed fetch, the worker is
\* at its select again and the next tick has been handed to it.
C20_Witness ==
    /\ unit.proc = "worker" /\ FetchFailed
    /\ pc["worker"] = "select" /\ tickC = 1 /\ ~signalled

====
